---- MODULE Spec2Model ----
(***************************************************************************)
(* Blighted Island: a tracker of Spirit Island sessions.                   *)
(* The model covers the history repository (game_history.py), the filter   *)
(* engine (GameFilters), the statistics aggregations (adversary.py,        *)
(* players.py, main.py) and the recording form (main.py).                  *)
(*                                                                         *)
(* Encoding of Python values:                                              *)
(*   Optional[T]   None is <<>>, a present value x is <<x>>                *)
(*   date          the day of January 2024 (1..31), ordered as dates are   *)
(*   JSON          a value is a record tagged by t: string, number, true,  *)
(*                 false, null; a document is a record of such values and  *)
(*                 a text that is no JSON at all is NotJson                *)
(*   sha256        collision free: the digest of a text is the text under  *)
(*                 the tag "sha256"                                        *)
(***************************************************************************)
EXTENDS Integers, Sequences, FiniteSets, TLC

VARIABLES
    store,   \* the bucket: blob path -> text of the blob
    fs,      \* get_fs(): "unset" before the first call, then "s3" or "none"
    cache,   \* st.cache_data entry of list_games: <<>> or <<list>>
    call,    \* the last operation run: its name, inputs and result
    games,   \* the list of games handed to the pure functions
    sessions,      \* the browser sessions that are inside record_game
    PLAYER_NAMES,  \* players.PLAYER_NAMES
    PLAYERS,       \* players.PLAYERS
    ui             \* the widgets of the session: radio, selectbox, text input

vars == <<store, fs, cache, call, games, sessions, PLAYER_NAMES, PLAYERS, ui>>

\* the state that only the sessions, the roster operations and the widgets
\* touch
roster == <<sessions, PLAYER_NAMES, PLAYERS, ui>>

-----------------------------------------------------------------------------
(* Bounds *)

MaxFilterGames == 2   \* length of the lists handed to filter_games
MaxStatGames == 3     \* length of the lists handed to the aggregations
MaxBlobs == 2         \* number of blobs in the bucket
MaxBatch == 3         \* number of records of one import payload

-----------------------------------------------------------------------------
(* Python values *)

None == <<>>
Some(x) == <<x>>

\* bool(x) of an Optional[str]: None and "" are falsy
TruthyStr(o) == o # None /\ o[1] # ""

\* bool(x) of an Optional[Player] or Optional[date]: only None is falsy
TruthyObj(o) == o # None

Range(s) == {s[i] : i \in 1..Len(s)}

\* all sequences over S of length 0..n
SeqsUpTo(S, n) == UNION {[1..k -> S] : k \in 0..n}

-----------------------------------------------------------------------------
(* Domain records *)

Player(n) == [name |-> n]

Spirit(n, c, a) == [name |-> n, complexity |-> c, aspect |-> a]

Adversary(n, l) == [name |-> n, level |-> l]

PlayerSpirit(p, s) == [player |-> p, spirit |-> s]

Game(d, adv, seats, w, ds, nt) ==
    [date_played |-> d, adversary |-> adv, players_played |-> seats,
     won |-> w, desync |-> ds, notes |-> nt]

ADVERSARY_NAMES ==
    <<"Brandenburg-Prussia", "England", "France (Plantation Colony)",
      "Habsburg Monarchy (Livestock Colony)", "Russia", "Sweden">>

Complexity == {"Very High", "High", "Moderate", "Low"}

\* Spirit.__str__
SpiritStr(s) ==
    IF TruthyStr(s.aspect) THEN s.name \o "[" \o s.aspect[1] \o "]"
    ELSE s.name

Bill == Player("Bill")
Kyle == Player("Kyle")

Thunderspeaker == Spirit("Thunderspeaker", "Moderate", None)
RiverSunshine == Spirit("River Surges in Sunlight", "Low", Some("Sunshine"))
River == Spirit("River Surges in Sunlight", "Low", None)

England3 == Adversary("England", 3)
Sweden2 == Adversary("Sweden", 2)

OptBool == {None, Some(TRUE), Some(FALSE)}

NoCall == [op |-> "none"]

\* the part of the state the pure functions never touch
\* sorted([...]) of players.py, lines 26-38
INITIAL_PLAYER_NAMES ==
    <<"Bill", "Brendan", "Colin", "Geoff", "Kyle", "Linda", "Manu", "Nathan", "Stephan">>

\* the widgets of a new session: st.radio and st.selectbox show their first
\* option, st.text_input is empty
DefaultWidgets ==
    [selected_complexity |-> "Any", sort_by |-> "Newest first", search_term |-> ""]

\* the module players right after import, no session inside record_game, the
\* widgets untouched
RosterIdle ==
    /\ sessions = <<>>
    /\ ui = DefaultWidgets
    /\ PLAYER_NAMES = INITIAL_PLAYER_NAMES
    /\ PLAYERS = [i \in 1..Len(INITIAL_PLAYER_NAMES) |-> Player(INITIAL_PLAYER_NAMES[i])]

Idle ==
    /\ store = << >>
    /\ fs = "unset"
    /\ cache = None
    /\ RosterIdle

-----------------------------------------------------------------------------
(* Filter engine: game_history.GameFilters *)

GameFilters(mn, mx, p, a, df, dt) ==
    [min_players |-> mn, max_players |-> mx, player |-> p, adversary |-> a,
     date_from |-> df, date_to |-> dt]

AtLeastMin(g, f) == Len(g.players_played) >= f.min_players

AtMostMax_Strict(g, f) == Len(g.players_played) < f.max_players

AtMostMax(g, f) == Len(g.players_played) <= f.max_players

\* self.player in {p.player for p in g.players_played}
HasPlayer(g, f) ==
    f.player[1] \in {g.players_played[i].player : i \in 1..Len(g.players_played)}

filter_games(f, gs) ==
    LET f1 == SelectSeq(gs, LAMBDA g : AtLeastMin(g, f))
        f2 == SelectSeq(f1, LAMBDA g : AtMostMax(g, f))
        f3 == IF TruthyObj(f.player)
              THEN SelectSeq(f2, LAMBDA g : HasPlayer(g, f))
              ELSE f2
        f4 == IF TruthyStr(f.adversary)
              THEN SelectSeq(f3, LAMBDA g : g.adversary.name = f.adversary[1])
              ELSE f3
        f5 == IF TruthyObj(f.date_from)
              THEN SelectSeq(f4, LAMBDA g : g.date_played >= f.date_from[1])
              ELSE f4
        f6 == IF TruthyObj(f.date_to)
              THEN SelectSeq(f5, LAMBDA g : g.date_played <= f.date_to[1])
              ELSE f5
    IN  f6

\* inputs of the filter
FilterSeats ==
    {<<PlayerSpirit(Bill, Thunderspeaker)>>,
     <<PlayerSpirit(Kyle, Thunderspeaker), PlayerSpirit(Bill, RiverSunshine)>>}

FilterGameUniverse ==
    {Game(d, Adversary(n, 3), seats, Some(TRUE), Some(FALSE), None) :
        d \in {1, 2}, n \in {"England", "Sweden"}, seats \in FilterSeats}

FilterUniverse ==
    {GameFilters(mn, mx, p, a, df, dt) :
        mn \in 0..3, mx \in 0..3,
        p \in {None, Some(Bill), Some(Kyle)},
        a \in {None, Some(""), Some("England"), Some("Sweden")},
        df \in {None, Some(1), Some(2)},
        dt \in {None, Some(1), Some(2)}}

InitFilter ==
    /\ Idle
    /\ call = NoCall
    /\ games \in SeqsUpTo(FilterGameUniverse, MaxFilterGames)

FilterGames(f) ==
    /\ call = NoCall
    /\ call' = [op |-> "filter_games", arg |-> f, ret |-> filter_games(f, games)]
    /\ UNCHANGED <<store, fs, cache, games, roster>>

NextFilter == \E f \in FilterUniverse : FilterGames(f)

SpecFilter == InitFilter /\ [][NextFilter]_vars

Filtered == call.op = "filter_games"

\* the criteria as the claim words them: a criterion is absent when it is None
SatisfiesAsClaimed(g, f) ==
    /\ f.min_players <= Len(g.players_played)
    /\ Len(g.players_played) <= f.max_players
    /\ f.player # None =>
          \E i \in 1..Len(g.players_played) : g.players_played[i].player = f.player[1]
    /\ f.adversary # None => g.adversary.name = f.adversary[1]
    /\ f.date_from # None => f.date_from[1] <= g.date_played
    /\ f.date_to # None => g.date_played <= f.date_to[1]

\* the same, an empty adversary name counting as absent
SatisfiesAmended(g, f) ==
    /\ f.min_players <= Len(g.players_played)
    /\ Len(g.players_played) <= f.max_players
    /\ f.player # None =>
          \E i \in 1..Len(g.players_played) : g.players_played[i].player = f.player[1]
    /\ (f.adversary # None /\ f.adversary # Some("")) =>
          g.adversary.name = f.adversary[1]
    /\ f.date_from # None => f.date_from[1] <= g.date_played
    /\ f.date_to # None => g.date_played <= f.date_to[1]

\* C1 (as claimed): filter_games returns, in input order, exactly the games
\* that satisfy every criterion that is not None.
C1_AsClaimed ==
    Filtered =>
        call.ret = SelectSeq(games, LAMBDA g : SatisfiesAsClaimed(g, call.arg))

\* C1 (amended): filter_games returns, in input order, exactly the games that
\* satisfy every provided criterion, where an adversary criterion that is None
\* or the empty string imposes no constraint; an empty input gives an empty
\* output, min_players > max_players gives an empty output, and for a single
\* game g min_players = len+1 gives [] while min_players = len (with the other
\* criteria admitting g) gives [g].
C1_FilterExact ==
    Filtered =>
        LET f == call.arg
            NoOther == /\ f.max_players >= f.min_players
                       /\ f.player = None /\ f.adversary = None
                       /\ f.date_from = None /\ f.date_to = None
        IN  /\ call.ret = SelectSeq(games, LAMBDA g : SatisfiesAmended(g, f))
            /\ games = <<>> => call.ret = <<>>
            /\ f.min_players > f.max_players => call.ret = <<>>
            /\ Len(games) = 1 =>
                 LET n == Len(games[1].players_played)
                 IN  /\ f.min_players = n + 1 => call.ret = <<>>
                     /\ (f.min_players = n /\ NoOther) => call.ret = games

\* a filter with every criterion given keeps the second of two games only
C1_Witness ==
    /\ Filtered
    /\ Len(games) = 2
    /\ call.arg.player # None /\ TruthyStr(call.arg.adversary)
    /\ call.arg.date_from # None /\ call.arg.date_to # None
    /\ call.ret = <<games[2]>>
    /\ games[1] # games[2]

-----------------------------------------------------------------------------
(* Statistics: adversary.get_adversary_stats, players.get_player_stats and  *)
(* main.breakdown_by_adversary / breakdown_by_spirit / breakdown_by_player. *)
(* A rate is kept in tenths of a percent: 500 is 50.0.                      *)

\* f"{game.adversary.name} (Lvl {game.adversary.level})"
AdvKey(g) == g.adversary.name \o " (Lvl " \o ToString(g.adversary.level) \o ")"

\* round(wins / total * 100, 1); no quotient of counts below 16 is a tie
RoundRate(w, t) == (2000 * w + t) \div (2 * t)

\* the (key, game) pairs in the order the loops meet them
AdversaryEntries(gs) == [i \in 1..Len(gs) |-> [key |-> AdvKey(gs[i]), game |-> gs[i]]]

\* seat entries that take a game once per label, however many seats have it
RECURSIVE SeatEntries_OncePerGame(_, _)
SeatEntries_OncePerGame(gs, KeyOf) ==
    IF gs = <<>> THEN <<>>
    ELSE LET g == Head(gs)
             label(i) == IF KeyOf = "spirit"
                         THEN SpiritStr(g.players_played[i].spirit)
                         ELSE g.players_played[i].player.name
             firsts == SelectSeq([i \in 1..Len(g.players_played) |-> i],
                                 LAMBDA i : \A j \in 1..(i - 1) : label(j) # label(i))
         IN  [n \in 1..Len(firsts) |-> [key |-> label(firsts[n]), game |-> g]]
             \o SeatEntries_OncePerGame(Tail(gs), KeyOf)

\* for player_spirit in game.players_played: one entry per seat
RECURSIVE SeatEntries(_, _)
SeatEntries(gs, KeyOf) ==
    IF gs = <<>> THEN <<>>
    ELSE LET g == Head(gs)
         IN  [i \in 1..Len(g.players_played) |->
                 [key |-> IF KeyOf = "spirit"
                          THEN SpiritStr(g.players_played[i].spirit)
                          ELSE g.players_played[i].player.name,
                  game |-> g]]
             \o SeatEntries(Tail(gs), KeyOf)

\* the loop of get_adversary_stats and get_player_stats over the entries
RECURSIVE Tally(_, _)
Tally(entries, stats) ==
    IF entries = <<>> THEN stats
    ELSE LET e == Head(entries)
             old == IF e.key \in DOMAIN stats THEN stats[e.key]
                    ELSE [wins |-> 0, losses |-> 0, total |-> 0]
             new == [wins |-> old.wins + (IF e.game.won = Some(TRUE) THEN 1 ELSE 0),
                     losses |-> old.losses + (IF e.game.won = Some(FALSE) THEN 1 ELSE 0),
                     total |-> old.total + 1]
         IN  Tally(Tail(entries),
                   [k \in DOMAIN stats \cup {e.key} |-> IF k = e.key THEN new ELSE stats[k]])

WithWinPct(stats) ==
    [k \in DOMAIN stats |->
        [wins |-> stats[k].wins, losses |-> stats[k].losses, total |-> stats[k].total,
         win_pct |-> IF stats[k].total > 0
                     THEN RoundRate(stats[k].wins, stats[k].total) ELSE 0]]

get_adversary_stats(gs) == WithWinPct(Tally(AdversaryEntries(gs), << >>))

get_player_stats(gs) == WithWinPct(Tally(SeatEntries(gs, "player"), << >>))

\* main.wins, main.losses, main.desyncs
wins(gs) == Len(SelectSeq(gs, LAMBDA g : g.won = Some(TRUE)))

losses(gs) == Len(SelectSeq(gs, LAMBDA g : g.won = Some(FALSE)))

desyncs(gs) == Len(SelectSeq(gs, LAMBDA g : g.won = None))

\* the keys of a defaultdict, in insertion order
RECURSIVE KeyOrder(_, _)
KeyOrder(entries, seen) ==
    IF entries = <<>> THEN seen
    ELSE KeyOrder(Tail(entries),
                  IF Head(entries).key \in Range(seen) THEN seen
                  ELSE Append(seen, Head(entries).key))

\* grouped[key]: the games appended under key
GroupedGames(entries, k) ==
    LET sel == SelectSeq(entries, LAMBDA e : e.key = k)
    IN  [i \in 1..Len(sel) |-> sel[i].game]

\* sorted(s, key=..., reverse=True), keys[i] being the key of s[i]: descending,
\* elements of equal key staying in their order (Python's sort is stable, and
\* reverse=True keeps that order)
SortedDesc(s, keys) ==
    LET Insert(t, n) ==
            LET k == Cardinality({i \in 1..Len(t) : keys[t[i]] >= keys[n]})
            IN  SubSeq(t, 1, k) \o <<n>> \o SubSeq(t, k + 1, Len(t))
        ins[n \in 0..Len(s)] == IF n = 0 THEN <<>> ELSE Insert(ins[n - 1], n)
    IN  [i \in 1..Len(s) |-> s[ins[Len(s)][i]]]

\* the data rows of a breakdown, sorted by win rate
Breakdown(entries) ==
    LET keys == KeyOrder(entries, <<>>)
        Row(k) ==
            LET gfk == GroupedGames(entries, k)
                win_count == wins(gfk)
                loss_count == losses(gfk)
                total == win_count + loss_count
            IN  [key |-> k, wins |-> win_count, losses |-> loss_count, total |-> total,
                 win_rate |-> IF total > 0 THEN RoundRate(win_count, total) ELSE 0]
        data == [i \in 1..Len(keys) |-> Row(keys[i])]
    IN  SortedDesc(data, [i \in 1..Len(data) |-> data[i].win_rate])

breakdown_by_adversary(gs) == Breakdown(AdversaryEntries(gs))

breakdown_by_spirit(gs) == Breakdown(SeatEntries(gs, "spirit"))

breakdown_by_player(gs) == Breakdown(SeatEntries(gs, "player"))

\* inputs of the aggregations
StatSeats ==
    {<<PlayerSpirit(Bill, Thunderspeaker)>>,
     <<PlayerSpirit(Bill, Thunderspeaker), PlayerSpirit(Kyle, RiverSunshine)>>,
     <<PlayerSpirit(Bill, Thunderspeaker), PlayerSpirit(Bill, Thunderspeaker)>>}

Outcomes == {<<Some(TRUE), Some(FALSE)>>, <<Some(FALSE), Some(FALSE)>>, <<None, Some(TRUE)>>}

StatGameUniverse ==
    {Game(1, adv, seats, o[1], o[2], None) :
        adv \in {England3, Sweden2}, seats \in StatSeats, o \in Outcomes}

InitStats ==
    /\ Idle
    /\ call = NoCall
    /\ games \in SeqsUpTo(StatGameUniverse, MaxStatGames)

\* a dict is returned as the list of its items
Items(stats, entries) ==
    LET keys == KeyOrder(entries, <<>>)
    IN  [i \in 1..Len(keys) |->
            [key |-> keys[i], wins |-> stats[keys[i]].wins,
             losses |-> stats[keys[i]].losses, total |-> stats[keys[i]].total,
             win_rate |-> stats[keys[i]].win_pct]]

GetAdversaryStats ==
    /\ call = NoCall
    /\ call' = [op |-> "get_adversary_stats", by |-> "adversary",
                ret |-> Items(get_adversary_stats(games), AdversaryEntries(games))]
    /\ UNCHANGED <<store, fs, cache, games, roster>>

GetPlayerStats ==
    /\ call = NoCall
    /\ call' = [op |-> "get_player_stats", by |-> "player",
                ret |-> Items(get_player_stats(games), SeatEntries(games, "player"))]
    /\ UNCHANGED <<store, fs, cache, games, roster>>

\* the breakdowns return early on an empty list ("No games to analyze.")
BreakdownByAdversary ==
    /\ call = NoCall
    /\ games # <<>>
    /\ call' = [op |-> "breakdown_by_adversary", by |-> "adversary",
                ret |-> breakdown_by_adversary(games)]
    /\ UNCHANGED <<store, fs, cache, games, roster>>

BreakdownBySpirit ==
    /\ call = NoCall
    /\ games # <<>>
    /\ call' = [op |-> "breakdown_by_spirit", by |-> "spirit",
                ret |-> breakdown_by_spirit(games)]
    /\ UNCHANGED <<store, fs, cache, games, roster>>

BreakdownByPlayer ==
    /\ call = NoCall
    /\ games # <<>>
    /\ call' = [op |-> "breakdown_by_player", by |-> "player",
                ret |-> breakdown_by_player(games)]
    /\ UNCHANGED <<store, fs, cache, games, roster>>

NextStats ==
    \/ GetAdversaryStats
    \/ GetPlayerStats
    \/ BreakdownByAdversary
    \/ BreakdownBySpirit
    \/ BreakdownByPlayer

SpecStats == InitStats /\ [][NextStats]_vars

AggregationOps ==
    {"get_adversary_stats", "get_player_stats", "breakdown_by_adversary",
     "breakdown_by_spirit", "breakdown_by_player"}

Aggregating == call.op \in AggregationOps

\* the entries (games, or seats of games) the grouping of the call assigns
EntriesOf(by) ==
    IF by = "adversary" THEN AdversaryEntries(games) ELSE SeatEntries(games, by)

Assigned(by, k) == SelectSeq(EntriesOf(by), LAMBDA e : e.key = k)

\* C2 (as claimed): in every aggregation every group has
\* wins + losses = total and total <= the number of entries of the group.
C2_WinsPlusLosses ==
    Aggregating =>
        \A i \in 1..Len(call.ret) :
            LET r == call.ret[i]
            IN  /\ r.wins + r.losses = r.total
                /\ r.total <= Len(Assigned(call.by, r.key))

Decided(by, k) == SelectSeq(Assigned(by, k), LAMBDA e : e.game.won # None)

Row(k, w, l, t, rate) == [key |-> k, wins |-> w, losses |-> l, total |-> t, win_rate |-> rate]

Scenario ==
    <<Game(1, England3, <<PlayerSpirit(Bill, Thunderspeaker)>>, Some(TRUE), Some(FALSE), None),
      Game(1, England3, <<PlayerSpirit(Bill, Thunderspeaker)>>, Some(FALSE), Some(FALSE), None),
      Game(1, Sweden2, <<PlayerSpirit(Bill, Thunderspeaker)>>, Some(TRUE), Some(FALSE), None)>>

\* C3 (as claimed): in every aggregation a group exists for every key met,
\* games with won = None are left out of total, the rate is
\* round(wins / total * 100, 1) for total > 0 and 0 otherwise, and the
\* England/Sweden scenario gives 1/1/2/50.0 and 1/0/1/100.0.
C3_DesyncExcluded ==
    Aggregating =>
        /\ {call.ret[i].key : i \in 1..Len(call.ret)}
              = {EntriesOf(call.by)[j].key : j \in 1..Len(EntriesOf(call.by))}
        /\ \A i \in 1..Len(call.ret) :
              LET r == call.ret[i]
              IN  /\ r.total = Len(Decided(call.by, r.key))
                  /\ r.win_rate = IF r.total > 0 THEN RoundRate(r.wins, r.total) ELSE 0
        /\ (games = Scenario /\ call.by = "adversary") =>
              Range(call.ret) = {Row("England (Lvl 3)", 1, 1, 2, 500),
                                 Row("Sweden (Lvl 2)", 1, 0, 1, 1000)}

-----------------------------------------------------------------------------
(* JSON and pydantic: Game.model_dump_json, Game.model_validate_json,       *)
(* Game.model_validate                                                      *)

JStr(x) == [t |-> "string", v |-> x]
JNum(n) == [t |-> "number", v |-> n]
JTrue == [t |-> "true"]
JFalse == [t |-> "false"]
JNull == [t |-> "null"]
JArray(items) == [t |-> "array", items |-> items]
\* a key the object does not have
Absent == [t |-> "absent"]
\* a text that json cannot parse
NotJson == [t |-> "notjson"]

\* date.isoformat(), as pydantic writes a date
isoformat(d) == "2024-01-" \o (IF d < 10 THEN "0" ELSE "") \o ToString(d)

\* date parsing: Some(d) for an ISO date, None otherwise
fromisoformat(x) ==
    IF \E d \in 1..31 : isoformat(d) = x
    THEN Some(CHOOSE d \in 1..31 : isoformat(d) = x)
    ELSE None

\* date.today(), the default of Game.date_played
Today == 2

DumpOptBool(b) == IF b = None THEN JNull ELSE IF b[1] THEN JTrue ELSE JFalse

DumpOptStr(x) == IF x = None THEN JNull ELSE JStr(x[1])

DumpSeat(ps) ==
    [t |-> "object",
     player |-> [t |-> "object", name |-> JStr(ps.player.name)],
     spirit |-> [t |-> "object", name |-> JStr(ps.spirit.name),
                 complexity |-> JStr(ps.spirit.complexity),
                 aspect |-> DumpOptStr(ps.spirit.aspect)]]

\* a dump that leaves out the fields that are None (exclude_none)
model_dump_json_ExcludeNone(g) ==
    [t |-> "object",
     date_played |-> JStr(isoformat(g.date_played)),
     adversary |-> [t |-> "object", name |-> JStr(g.adversary.name),
                    level |-> JNum(g.adversary.level)],
     players_played |->
         JArray([i \in 1..Len(g.players_played) |-> DumpSeat(g.players_played[i])]),
     won |-> IF g.won = None THEN Absent ELSE DumpOptBool(g.won),
     desync |-> IF g.desync = None THEN Absent ELSE DumpOptBool(g.desync),
     notes |-> IF g.notes = None THEN Absent ELSE DumpOptStr(g.notes)]

\* game.model_dump_json(): every field is written, None as null
model_dump_json(g) ==
    [t |-> "object",
     date_played |-> JStr(isoformat(g.date_played)),
     adversary |-> [t |-> "object", name |-> JStr(g.adversary.name),
                    level |-> JNum(g.adversary.level)],
     players_played |->
         JArray([i \in 1..Len(g.players_played) |-> DumpSeat(g.players_played[i])]),
     won |-> DumpOptBool(g.won),
     desync |-> DumpOptBool(g.desync),
     notes |-> DumpOptStr(g.notes)]

\* validation of one field; None is a validation error
LoadStr(j) == IF j.t = "string" THEN Some(j.v) ELSE None

LoadInt(j) == IF j.t = "number" THEN Some(j.v) ELSE None

\* Optional[...] = None: null and an absent key give None
LoadOptBool(j) ==
    IF j.t \in {"null", "absent"} THEN Some(None)
    ELSE IF j.t = "true" THEN Some(Some(TRUE))
    ELSE IF j.t = "false" THEN Some(Some(FALSE))
    ELSE None

\* won: Optional[bool] has no default, the key is required
LoadRequiredOptBool(j) == IF j.t = "absent" THEN None ELSE LoadOptBool(j)

LoadOptStr(j) ==
    IF j.t \in {"null", "absent"} THEN Some(None)
    ELSE IF j.t = "string" THEN Some(Some(j.v))
    ELSE None

LoadDate(j) ==
    IF j.t = "absent" THEN Some(Today)
    ELSE IF j.t = "string" THEN fromisoformat(j.v)
    ELSE None

LoadAdversary(j) ==
    IF j.t # "object" THEN None
    ELSE IF LoadStr(j.name) = None \/ LoadInt(j.level) = None THEN None
    ELSE Some(Adversary(LoadStr(j.name)[1], LoadInt(j.level)[1]))

LoadSpirit(j) ==
    IF j.t # "object" THEN None
    ELSE IF LoadStr(j.name) = None \/ LoadStr(j.complexity) = None
            \/ LoadOptStr(j.aspect) = None THEN None
    ELSE IF LoadStr(j.complexity)[1] \notin Complexity THEN None
    ELSE Some(Spirit(LoadStr(j.name)[1], LoadStr(j.complexity)[1], LoadOptStr(j.aspect)[1]))

LoadPlayer(j) ==
    IF j.t # "object" THEN None
    ELSE IF LoadStr(j.name) = None THEN None
    ELSE Some(Player(LoadStr(j.name)[1]))

LoadSeat(j) ==
    IF j.t # "object" THEN None
    ELSE IF LoadPlayer(j.player) = None \/ LoadSpirit(j.spirit) = None THEN None
    ELSE Some(PlayerSpirit(LoadPlayer(j.player)[1], LoadSpirit(j.spirit)[1]))

LoadSeats(j) ==
    IF j.t # "array" THEN None
    ELSE IF \E i \in 1..Len(j.items) : LoadSeat(j.items[i]) = None THEN None
    ELSE Some([i \in 1..Len(j.items) |-> LoadSeat(j.items[i])[1]])

\* Game.model_validate(obj): Some(game), or None for a ValidationError
model_validate(j) ==
    IF j.t # "object" THEN None
    ELSE IF \/ LoadDate(j.date_played) = None
            \/ LoadAdversary(j.adversary) = None
            \/ LoadSeats(j.players_played) = None
            \/ LoadRequiredOptBool(j.won) = None
            \/ LoadOptBool(j.desync) = None
            \/ LoadOptStr(j.notes) = None
         THEN None
    ELSE Some(Game(LoadDate(j.date_played)[1], LoadAdversary(j.adversary)[1],
                   LoadSeats(j.players_played)[1], LoadRequiredOptBool(j.won)[1],
                   LoadOptBool(j.desync)[1], LoadOptStr(j.notes)[1]))

\* Game.model_validate_json(text): a text that is no JSON is a ValidationError
model_validate_json(text) ==
    IF text = NotJson THEN None ELSE model_validate(text)

-----------------------------------------------------------------------------
(* History repository: game_history.get_fs, list_games, record_game *)

STORAGE_ROOT == "s3://blightedisland/recorded_games/"

\* hashlib.sha256(text).hexdigest(), taken to be collision free
sha256(text) == [sha256 |-> text]

\* one blob name for every game
Filepath_Fixed(hashstr) ==
    [root |-> STORAGE_ROOT, name |-> [sha256 |-> JStr("latest")], ext |-> ".json"]

\* f"{STORAGE_ROOT}{hashstr}.json"
Filepath(hashstr) == [root |-> STORAGE_ROOT, name |-> hashstr, ext |-> ".json"]

\* fs.write_text(path, text): creates the blob or overwrites it
write_text(st, path, text) ==
    [p \in DOMAIN st \cup {path} |-> IF p = path THEN text ELSE st[p]]

\* get_fs() under st.cache_resource: the first call creates the filesystem
\* ("s3") or fails ("none"), and either result is kept for the later calls
get_fs(cur) == IF cur = "unset" THEN {"s3", "none"} ELSE {cur}

\* a clear that leaves the cached values where they are
cache_data_clear_Noop(ch) == ch

\* st.cache_data.clear(): no function has a cached value any more
cache_data_clear(ch) == None

\* a save that names the blob by the number of blobs instead of the digest
record_game_Counter(st, fsv, game, writeOk) ==
    IF fsv = "none" \/ ~writeOk
    THEN [store |-> st, ret |-> FALSE, cleared |-> FALSE]
    ELSE [store |-> write_text(st, Filepath([sha256 |-> JNum(Cardinality(DOMAIN st))]),
                               model_dump_json(game)),
          ret |-> TRUE, cleared |-> TRUE]

\* record_game(game) with filesystem fsv; writeOk: fs.write_text does not raise.
\* Gives the bucket afterwards, the value returned and whether
\* st.cache_data.clear() ran.
record_game(st, fsv, game, writeOk) ==
    IF fsv = "none" THEN [store |-> st, ret |-> FALSE, cleared |-> FALSE]
    ELSE LET game_json == model_dump_json(game)
             hashstr == sha256(game_json)
             filepath == Filepath(hashstr)
         IN  IF writeOk
             THEN [store |-> write_text(st, filepath, game_json),
                   ret |-> TRUE, cleared |-> TRUE]
             ELSE [store |-> st, ret |-> FALSE, cleared |-> FALSE]

\* a parse loop that gives up at the first blob that does not validate
RECURSIVE ParseAll_StopAtInvalid(_)
ParseAll_StopAtInvalid(texts) ==
    IF texts = <<>> THEN <<>>
    ELSE LET v == model_validate_json(Head(texts))
         IN  IF v = None THEN <<>> ELSE <<v[1]>> \o ParseAll_StopAtInvalid(Tail(texts))

\* the loop over jsons.items(): a blob that does not validate is skipped
RECURSIVE ParseAll(_)
ParseAll(texts) ==
    IF texts = <<>> THEN <<>>
    ELSE LET v == model_validate_json(Head(texts))
         IN  (IF v = None THEN <<>> ELSE <<v[1]>>) \o ParseAll(Tail(texts))

\* fs.cat(saved_files): the texts in the order of the listing
Cat(st, listing) == [i \in 1..Len(listing) |-> st[listing[i]]]

\* a result left in the order of the listing
SortedByDate_Unsorted(gs) == gs

\* sorted(games, key=lambda x: x.date_played, reverse=True)
SortedByDate(gs) == SortedDesc(gs, [i \in 1..Len(gs) |-> gs[i].date_played])

\* a body that returns what it has when reading fails
list_games_Partial(st, fsv, fault, listing) ==
    IF fsv = "none" \/ DOMAIN st = {} \/ fault = "ls" THEN <<>>
    ELSE IF fault = "cat" THEN SortedByDate(ParseAll(Cat(st, SubSeq(listing, 1, 1))))
    ELSE SortedByDate(ParseAll(Cat(st, listing)))

\* the body of list_games; fault: "ls" when fs.ls raises something other than
\* FileNotFoundError, "cat" when fs.cat raises, "none" otherwise; listing: the
\* paths fs.ls returns.  An empty bucket has no root: FileNotFoundError.
list_games(st, fsv, fault, listing) ==
    IF fsv = "none" THEN <<>>
    ELSE IF DOMAIN st = {} THEN <<>>
    ELSE IF fault = "ls" THEN <<>>
    ELSE IF fault = "cat" THEN <<>>
    ELSE SortedByDate(ParseAll(Cat(st, listing)))

\* the orders in which fs.ls can return the paths of the bucket
Listings(st) ==
    {l \in [1..Cardinality(DOMAIN st) -> DOMAIN st] :
        \A i, j \in DOMAIN l : i # j => l[i] # l[j]}

-----------------------------------------------------------------------------
(* Recording form: main.render_record_game_tab *)

WIN_LABEL == "won"
LOSS_LABEL == "lost"
DESYNC_LABEL == "desync"
RESULT_OPTIONS == {WIN_LABEL, LOSS_LABEL, DESYNC_LABEL}

\* "Handle result": the (won, desync) pair of a radio choice
HandleResult(result) ==
    IF result = None THEN <<None, None>>
    ELSE IF result[1] = DESYNC_LABEL THEN <<None, Some(TRUE)>>
    ELSE <<Some(result[1] = WIN_LABEL), Some(FALSE)>>

all_inputs_valid(selected_adversary, player_selections, selected_count_num, result) ==
    /\ selected_adversary # None
    /\ Len(player_selections) = selected_count_num
    /\ result # None

\* the Game of the summary
FormGame(date_played, selected_adversary, player_selections, result, notes) ==
    Game(date_played, selected_adversary[1], player_selections,
         HandleResult(result)[1], HandleResult(result)[2],
         IF notes # "" THEN Some(notes) ELSE None)

\* what the widgets offer
FormDates == {1, 2}
FormAdversaries == {None, Some(England3)}
FormSelections ==
    {<<>>, <<PlayerSpirit(Bill, Thunderspeaker), PlayerSpirit(Kyle, RiverSunshine)>>}
FormResults == {None} \cup {Some(r) : r \in RESULT_OPTIONS}
FormNotes == {"", "gg"}

-----------------------------------------------------------------------------
(* Blobs that reach the bucket by other means: records of older revisions *)

LegacySeat == DumpSeat(PlayerSpirit(Bill, River))

\* a record without the keys desync and notes: valid
LegacyValid ==
    [t |-> "object", date_played |-> JStr(isoformat(2)),
     adversary |-> [t |-> "object", name |-> JStr("Sweden"), level |-> JNum(2)],
     players_played |-> JArray(<<LegacySeat>>),
     won |-> JTrue, desync |-> Absent, notes |-> Absent]

\* a record without the key won: not valid
LegacyNoWon == [LegacyValid EXCEPT !.won = Absent]

ForeignBlobs ==
    {[path |-> [root |-> STORAGE_ROOT, name |-> [file |-> "readme"], ext |-> ".txt"],
      text |-> NotJson],
     [path |-> [root |-> STORAGE_ROOT, name |-> [file |-> "old-1"], ext |-> ".json"],
      text |-> LegacyValid],
     [path |-> [root |-> STORAGE_ROOT, name |-> [file |-> "old-2"], ext |-> ".json"],
      text |-> LegacyNoWon]}

-----------------------------------------------------------------------------
(* The repository as a state machine *)

Init ==
    /\ store = << >>
    /\ fs = "unset"
    /\ cache = None
    /\ call = NoCall
    /\ games = <<>>
    /\ RosterIdle

\* "Save Game" on a valid form
SaveGame ==
    \E date_played \in FormDates, selected_adversary \in FormAdversaries,
       player_selections \in FormSelections, result \in FormResults,
       notes \in FormNotes, fsv \in get_fs(fs), writeOk \in BOOLEAN :
        /\ all_inputs_valid(selected_adversary, player_selections, 2, result)
        /\ LET game == FormGame(date_played, selected_adversary, player_selections,
                                result, notes)
               r == record_game(store, fsv, game, writeOk)
           IN  /\ Cardinality(DOMAIN r.store) <= MaxBlobs
               /\ store' = r.store
               /\ fs' = fsv
               /\ cache' = IF r.cleared THEN cache_data_clear(cache) ELSE cache
               /\ call' = [op |-> "record_game", game |-> game, ret |-> r.ret,
                           before |-> store, cached |-> cache]
        /\ UNCHANGED <<games, roster>>

\* list_games() under st.cache_data: a cached value is returned as it is,
\* otherwise the body runs and its value is cached
ListGames ==
    \/ /\ cache # None
       /\ call' = [op |-> "list_games", hit |-> TRUE, fault |-> "none",
                   listing |-> <<>>, ret |-> cache[1]]
       /\ UNCHANGED <<store, fs, cache, games, roster>>
    \/ /\ cache = None
       /\ \E fsv \in get_fs(fs), fault \in {"none", "ls", "cat"} :
            \E listing \in IF fsv = "s3" /\ fault # "ls" THEN Listings(store) ELSE {<<>>} :
                LET ret == list_games(store, fsv, fault, listing)
                IN  /\ fs' = fsv
                    /\ cache' = Some(ret)
                    /\ call' = [op |-> "list_games", hit |-> FALSE, fault |-> fault,
                                listing |-> listing, ret |-> ret]
       /\ UNCHANGED <<store, games, roster>>

\* CACHE_TTL seconds pass
Expire ==
    /\ cache # None
    /\ cache' = None
    /\ call' = [op |-> "expire"]
    /\ UNCHANGED <<store, fs, games, roster>>

\* a blob is put into the bucket from outside the application
PutBlob ==
    \E b \in ForeignBlobs :
        /\ b.path \notin DOMAIN store
        /\ Cardinality(DOMAIN store) < MaxBlobs
        /\ store' = write_text(store, b.path, b.text)
        /\ call' = [op |-> "put_blob"]
        /\ UNCHANGED <<fs, cache, games, roster>>

Next ==
    \/ SaveGame
    \/ ListGames
    \/ Expire
    \/ PutBlob

Spec == Init /\ [][Next]_vars

-----------------------------------------------------------------------------
(* Bulk import: game_history.import_games *)

\* the state the loop of import_games works on
ImportAcc(st, fsv, ch, imported, failed) ==
    [store |-> st, fs |-> fsv, cache |-> ch, imported |-> imported, failed |-> failed]

\* the loop body for one record: acc after game_data is handled.  created is
\* what get_fs() yields if this is its first call, writeOk whether
\* fs.write_text succeeds for this record.
ImportOne(acc, game_data, created, writeOk) ==
    LET v == model_validate(game_data)
    IN  IF v = None
        THEN [acc EXCEPT !.failed = @ + 1]
        ELSE LET fsv == IF acc.fs = "unset" THEN created ELSE acc.fs
                 r == record_game(acc.store, fsv, v[1], writeOk)
             IN  ImportAcc(r.store, fsv,
                           IF r.cleared THEN cache_data_clear(acc.cache) ELSE acc.cache,
                           acc.imported + (IF r.ret THEN 1 ELSE 0),
                           acc.failed + (IF r.ret THEN 0 ELSE 1))

\* a loop that stops at the first record that fails
RECURSIVE ImportLoop_AbortOnFailure(_, _, _, _)
ImportLoop_AbortOnFailure(items, acc, created, writeOk) ==
    IF items = <<>> THEN acc
    ELSE LET next == ImportOne(acc, Head(items), created, Head(writeOk))
         IN  IF next.failed > acc.failed THEN next
             ELSE ImportLoop_AbortOnFailure(Tail(items), next, created, Tail(writeOk))

\* for game_data in games_data: ...
RECURSIVE ImportLoop(_, _, _, _)
ImportLoop(items, acc, created, writeOk) ==
    IF items = <<>> THEN acc
    ELSE ImportLoop(Tail(items), ImportOne(acc, Head(items), created, Head(writeOk)),
                    created, Tail(writeOk))

\* the keys of a game object, in the order the file has them
GameKeys == <<"date_played", "adversary", "players_played", "won", "desync", "notes">>

\* iter(obj) for a dict parsed from JSON: its keys, each a str
Keys(obj) ==
    LET present == SelectSeq(GameKeys, LAMBDA k : obj[k] # Absent)
    IN  [i \in 1..Len(present) |-> JStr(present[i])]

\* whether "for game_data in games_data" can start: TypeError for a number,
\* true, false or null
Iterable(games_data) == games_data.t \in {"array", "object"}

\* what "for game_data in games_data" walks through
Iterate(games_data) ==
    IF games_data.t = "array" THEN games_data.items ELSE Keys(games_data)

\* import_games that counts an undecodable file as one failed record
import_games_CountDecodeError(games_json, acc, created, writeOk) ==
    [acc |-> acc, ret |-> <<0, 1>>, raised |-> FALSE]

\* import_games(games_json): the state afterwards, the pair returned and
\* whether an exception left the function instead
import_games(games_json, acc, created, writeOk) ==
    IF games_json = NotJson
    THEN [acc |-> acc, ret |-> <<0, 0>>, raised |-> FALSE]
    ELSE IF Iterable(games_json)
    THEN LET end == ImportLoop(Iterate(games_json), acc, created, writeOk)
         IN  [acc |-> end, ret |-> <<end.imported, end.failed>>, raised |-> FALSE]
    ELSE \* the for statement is outside every try: the TypeError leaves
         [acc |-> acc, ret |-> <<0, 0>>, raised |-> TRUE]

\* records of an import file
ExportedWin ==
    model_dump_json(Game(1, England3,
                         <<PlayerSpirit(Bill, Thunderspeaker),
                           PlayerSpirit(Kyle, RiverSunshine)>>,
                         Some(TRUE), Some(FALSE), None))

\* a record edited by hand: won and desync both set
WonAndDesync == [ExportedWin EXCEPT !.desync = JTrue]

ImportRecords == {ExportedWin, WonAndDesync, LegacyValid, LegacyNoWon}

\* an undecodable file, the files "7" and "null", one game object instead of
\* a list, and the lists of records
ImportPayloads ==
    {NotJson, JNum(7), JNull, ExportedWin}
        \cup {JArray(items) : items \in SeqsUpTo(ImportRecords, MaxBatch)}

\* the application before an import: list_games has run (or its value has
\* expired) on an empty bucket, or nothing has run yet
InitImport ==
    /\ store = << >>
    /\ games = <<>>
    /\ call = NoCall
    /\ fs \in {"unset", "s3", "none"}
    /\ cache \in {None, Some(<<>>)}
    /\ fs = "unset" => cache = None
    /\ RosterIdle

\* "Import Games" on an uploaded file
ImportGames ==
    /\ call = NoCall
    /\ \E games_json \in ImportPayloads, created \in {"s3", "none"} :
         \E writeOk \in [1..(IF Iterable(games_json) THEN Len(Iterate(games_json)) ELSE 0)
                          -> BOOLEAN] :
            LET r == import_games(games_json, ImportAcc(store, fs, cache, 0, 0),
                                  created, writeOk)
            IN  /\ store' = r.acc.store
                /\ fs' = r.acc.fs
                /\ cache' = r.acc.cache
                /\ call' = [op |-> "import_games", games_json |-> games_json,
                            writeOk |-> writeOk, ret |-> r.ret, raised |-> r.raised,
                            before |-> store]
    /\ UNCHANGED <<games, roster>>

NextImport == ImportGames

SpecImport == InitImport /\ [][NextImport]_vars

-----------------------------------------------------------------------------
(* Properties of the repository *)

\* the games the form can save
FormGames ==
    {FormGame(d, a, sel, r, n) :
        d \in FormDates, a \in FormAdversaries \ {None},
        sel \in {x \in FormSelections : Len(x) = 2},
        r \in FormResults \ {None}, n \in FormNotes}

Saved == call.op = "record_game" /\ call.ret

\* list_games ran its body (no cached value was returned)
Listed == call.op = "list_games" /\ ~call.hit

\* ... and neither the filesystem nor fs.ls nor fs.cat failed
ListedNoFault == Listed /\ fs = "s3" /\ call.fault = "none"

\* the paths of the bucket whose text is x
BlobsHolding(st, x) == {p \in DOMAIN st : st[p] = x}

\* the paths of the bucket whose text validates to game g
BlobsOf(st, g) == {p \in DOMAIN st : model_validate_json(st[p]) = Some(g)}

ValidBlobs(st) == {p \in DOMAIN st : model_validate_json(st[p]) # None}

Occurrences(s, x) == Cardinality({i \in 1..Len(s) : s[i] = x})

\* C5: a successful record_game of a game whose serialized content is already
\* stored leaves the set of blobs as it was, with exactly one blob of that
\* content, named by the digest of the content.
C5_SaveTwiceOneBlob ==
    (Saved /\ BlobsHolding(call.before, model_dump_json(call.game)) # {}) =>
        /\ store = call.before
        /\ BlobsHolding(store, model_dump_json(call.game))
              = {Filepath(sha256(model_dump_json(call.game)))}

C5_Witness ==
    /\ Saved
    /\ BlobsHolding(call.before, model_dump_json(call.game)) # {}
    /\ Cardinality(DOMAIN store) = 2

\* C6: when the bucket holds exactly what record_game(g) writes into an empty
\* bucket, a list_games that meets no storage fault returns the one-element
\* list [g], g equal in every field.
C6_RoundTrip ==
    ListedNoFault =>
        \A g \in FormGames :
            store = record_game(<< >>, "s3", g, TRUE).store => call.ret = <<g>>

C6_Witness ==
    /\ ListedNoFault
    /\ \E g \in FormGames :
          /\ store = record_game(<< >>, "s3", g, TRUE).store
          /\ g.won = None /\ g.notes # None
          /\ call.ret = <<g>>

\* C7: a list_games that meets no storage fault returns exactly the games of
\* the blobs that validate, one per valid blob, whatever the number and the
\* place of the blobs that do not validate.
C7_SkipInvalid ==
    ListedNoFault =>
        /\ Len(call.ret) = Cardinality(ValidBlobs(store))
        /\ \A p \in ValidBlobs(store) :
              LET g == model_validate_json(store[p])[1]
              IN  Occurrences(call.ret, g) = Cardinality(BlobsOf(store, g))

\* the first blob read does not validate, a later one does
C7_Witness ==
    /\ ListedNoFault
    /\ Len(call.listing) = 2
    /\ call.listing[1] \notin ValidBlobs(store)
    /\ call.listing[2] \in ValidBlobs(store)
    /\ Len(call.ret) = 1

\* C8: the list list_games returns is ordered by date_played, most recent
\* first, and is a permutation of the games parsed from the blobs.
C8_NewestFirst ==
    Listed =>
        LET parsed == ParseAll(Cat(store, call.listing))
        IN  /\ \A i \in 1..(Len(call.ret) - 1) :
                  call.ret[i].date_played >= call.ret[i + 1].date_played
            /\ ListedNoFault =>
                  /\ Len(call.ret) = Len(parsed)
                  /\ \A i \in 1..Len(parsed) :
                        Occurrences(call.ret, parsed[i]) = Occurrences(parsed, parsed[i])

\* the blobs were read oldest first
C8_Witness ==
    /\ ListedNoFault
    /\ LET parsed == ParseAll(Cat(store, call.listing))
       IN  /\ Len(parsed) = 2
           /\ parsed[1].date_played < parsed[2].date_played
           /\ call.ret = <<parsed[2], parsed[1]>>

\* C9: list_games returns the empty list when the root does not exist, when
\* no filesystem could be created, when fs.ls fails and when fs.cat fails.
C9_EmptyOnFault ==
    (Listed /\ (fs = "none" \/ DOMAIN store = {} \/ call.fault \in {"ls", "cat"})) =>
        call.ret = <<>>

\* reading fails although the bucket holds a blob that validates
C9_Witness ==
    /\ Listed
    /\ fs = "s3"
    /\ call.fault = "cat"
    /\ ValidBlobs(store) # {}
    /\ call.ret = <<>>

-----------------------------------------------------------------------------
(* Properties of persistence and of the import *)

\* exactly one of won = true, won = false, desync = true, unset holds
OutcomeInvariant(g) ==
    Cardinality({k \in {"won", "lost", "desync", "unset"} :
                    \/ k = "won" /\ g.won = Some(TRUE)
                    \/ k = "lost" /\ g.won = Some(FALSE)
                    \/ k = "desync" /\ g.desync = Some(TRUE)
                    \/ k = "unset" /\ g.won = None /\ g.desync # Some(TRUE)}) = 1

\* the blobs record_game wrote: those named by a digest
Recorded(st) == {p \in DOMAIN st : "sha256" \in DOMAIN p.name}

\* C4 (as claimed): every game record_game has persisted, from the form or
\* from an import, satisfies the outcome invariant: a set won and
\* desync = true are never stored together.
C4_OutcomeExclusive ==
    \A p \in Recorded(store) :
        /\ model_validate_json(store[p]) # None
        /\ OutcomeInvariant(model_validate_json(store[p])[1])

Imported == call.op = "import_games" /\ call.games_json.t = "array"

\* the positions of the batch whose record validates and is written
SavedAt(items, writeOk) ==
    {i \in 1..Len(items) : model_validate(items[i]) # None /\ fs = "s3" /\ writeOk[i]}

\* C10: for a batch of n records import_games returns (imported, failed) with
\* imported + failed = n, imported the number of records that validated and
\* were saved; every such record is in the bucket whatever failed before it;
\* 3 records of which 1 is malformed give (2, 1) when the writes succeed.
C10_ImportCounts ==
    Imported =>
        LET items == call.games_json.items
            n == Len(items)
            saved == SavedAt(items, call.writeOk)
        IN  /\ call.ret[1] + call.ret[2] = n
            /\ call.ret[1] = Cardinality(saved)
            /\ call.ret[2] = n - Cardinality(saved)
            /\ \A i \in saved :
                  Filepath(sha256(model_dump_json(model_validate(items[i])[1])))
                      \in DOMAIN store
            /\ ( /\ n = 3
                 /\ Cardinality({i \in 1..n : model_validate(items[i]) = None}) = 1
                 /\ fs = "s3"
                 /\ \A i \in 1..n : call.writeOk[i] )
               => call.ret = <<2, 1>>

\* the first of three records is malformed, the two after it are saved
C10_Witness ==
    /\ Imported
    /\ Len(call.games_json.items) = 3
    /\ model_validate(call.games_json.items[1]) = None
    /\ call.ret = <<2, 1>>
    /\ Cardinality(DOMAIN store) = 2


\* C11: list_games, record_game and import_games return their signal and
\* never raise to the caller, whatever the payload and the storage fault;
\* that includes a payload that is valid JSON but not a list of objects.
C11_NeverRaises ==
    call.op = "import_games" => ~call.raised

\* C12: a payload that is not valid JSON makes import_games return (0, 0)
\* without raising and without a write: the bucket is as it was before.
C12_NotJsonNoRecords ==
    (call.op = "import_games" /\ call.games_json = NotJson) =>
        /\ call.ret = <<0, 0>>
        /\ ~call.raised
        /\ store = call.before

\* an undecodable file has been imported
C12_Witness ==
    /\ call.op = "import_games"
    /\ call.games_json = NotJson
    /\ call.ret = <<0, 0>>

-----------------------------------------------------------------------------
(* Adversary selection: adversary.random_adversary, weighted_random_adversary *)

MaxHistory == 5

\* a weight: the float the code computes, kept exact as a fraction with a
\* positive denominator
Frac(n, d) == [num |-> n, den |-> d]
FracLess(a, b) == a.num * b.den < b.num * a.den
FracEq(a, b) == a.num * b.den = b.num * a.den
FracMax(a, b) == IF FracLess(a, b) THEN b ELSE a

\* g.adversary.level == level with the level forgotten
AtLevel_Any(g, level) == TRUE

\* g.adversary.level == level
AtLevel(g, level) == g.adversary.level = level

\* [g.adversary.name for g in games if g.adversary.level == level]
adversary_at_level(gs, level) ==
    LET at == SelectSeq(gs, LAMBDA g : AtLevel(g, level))
    IN  [i \in 1..Len(at) |-> at[i].adversary.name]

\* Counter(names)
Counter(names) ==
    [n \in Range(names) |-> Cardinality({i \in 1..Len(names) : names[i] = n})]

\* counter.most_common(1)[0]: the highest count, the first one met among equals
most_common(names) ==
    LET counter == Counter(names)
        first(n) == CHOOSE i \in 1..Len(names) :
                        names[i] = n /\ \A j \in 1..(i - 1) : names[j] # n
        top == CHOOSE n \in DOMAIN counter :
                   \A m \in DOMAIN counter :
                       \/ counter[m] < counter[n]
                       \/ counter[m] = counter[n] /\ first(n) <= first(m)
    IN  <<top, counter[top]>>

\* counter.get(a, default)
counter_get(counter, a, default) ==
    IF a \in DOMAIN counter THEN counter[a] ELSE default

\* the weights without the floor
FloorWeight_None(w) == w

\* max(w, 0.1)
FloorWeight(w) == FracMax(w, Frac(1, 10))

\* weights that grow with the number of plays
Weights_Proportional(names) ==
    LET counter == Counter(names)
    IN  [i \in 1..Len(ADVERSARY_NAMES) |->
            FloorWeight(Frac(counter_get(counter, ADVERSARY_NAMES[i], 0), 1))]

\* lines 98-111: max(max_count / counter.get(a, 1) - 1, 0.1) for each name
Weights(names) ==
    LET counter == Counter(names)
        max_count == most_common(names)[2]
    IN  [i \in 1..Len(ADVERSARY_NAMES) |->
            LET n == counter_get(counter, ADVERSARY_NAMES[i], 1)
            IN  FloorWeight(Frac(max_count - n, n))]

\* random.choice(population): every element has the same weight
ChoiceWeights(population) == [i \in 1..Len(population) |-> Frac(1, 1)]

\* random.choices(population, weights)[0]: the elements that can be drawn
Drawable(population, weights) ==
    {population[i] : i \in {j \in 1..Len(population) : weights[j].num > 0}}

\* random_adversary that keeps the default level of the slider
random_adversary_DefaultLevel(level) ==
    [weights |-> ChoiceWeights(ADVERSARY_NAMES),
     outcomes |-> {Adversary(n, 3) : n \in Drawable(ADVERSARY_NAMES,
                                                     ChoiceWeights(ADVERSARY_NAMES))}]

\* random_adversary(level): the weights of the draw and the adversaries it
\* can return
random_adversary(level) ==
    [weights |-> ChoiceWeights(ADVERSARY_NAMES),
     outcomes |-> {Adversary(n, level) : n \in Drawable(ADVERSARY_NAMES,
                                                         ChoiceWeights(ADVERSARY_NAMES))}]

\* weighted_random_adversary(level, games)
weighted_random_adversary(level, gs) ==
    LET names == adversary_at_level(gs, level)
    IN  IF names = <<>> THEN random_adversary(level)
        ELSE [weights |-> Weights(names),
              outcomes |-> {Adversary(n, level) :
                               n \in Drawable(ADVERSARY_NAMES, Weights(names))}]

\* the history: games that differ in adversary and level only, one of them
\* against an adversary that is no longer in the list
HistoryAdversaries ==
    {England3, Adversary("Sweden", 3), Adversary("England", 2),
     Adversary("Habsburg Mining Expedition", 3)}

HistoryGames ==
    {Game(1, a, <<PlayerSpirit(Bill, River)>>, Some(TRUE), Some(FALSE), None) :
        a \in HistoryAdversaries}

\* the levels asked for: one the history has, one it may lack, one it never has
RequestedLevels == {2, 3, 4}

InitWeighted ==
    /\ Idle
    /\ call = NoCall
    /\ games \in SeqsUpTo(HistoryGames, MaxHistory)

\* the button "Weighted Random Adversary"
WeightedRandomAdversary ==
    /\ call = NoCall
    /\ \E level \in RequestedLevels :
          LET r == weighted_random_adversary(level, games)
          IN  \E picked \in r.outcomes :
                 call' = [op |-> "weighted_random_adversary", level |-> level,
                          weights |-> r.weights, outcomes |-> r.outcomes,
                          ret |-> picked]
    /\ UNCHANGED <<store, fs, cache, games, roster>>

NextWeighted == WeightedRandomAdversary

SpecWeighted == InitWeighted /\ [][NextWeighted]_vars

-----------------------------------------------------------------------------
(* Properties of the adversary selection *)

Weighted == call.op = "weighted_random_adversary"

\* n_c: the games of the history against c at the level asked for
PlaysAt(c, level) ==
    Cardinality({i \in 1..Len(games) :
                    games[i].adversary.name = c /\ games[i].adversary.level = level})

\* the names the history has at any level
PlayedNames == {games[i].adversary.name : i \in 1..Len(games)}

\* the highest count at the level
MaxPlaysAt(level) ==
    CHOOSE m \in 0..Len(games) :
        /\ \A c \in PlayedNames : PlaysAt(c, level) <= m
        /\ m > 0 => \E c \in PlayedNames : PlaysAt(c, level) = m

WeightedWithHistory == Weighted /\ MaxPlaysAt(call.level) > 0

NameIndexes == 1..Len(ADVERSARY_NAMES)

IndexOf(c) == CHOOSE i \in NameIndexes : ADVERSARY_NAMES[i] = c

\* max(max_count / max(n_c, 1) - 1, 0.1)
ClaimedWeight(c, level) ==
    LET n == PlaysAt(c, level)
        d == IF n > 1 THEN n ELSE 1
        raw == Frac(MaxPlaysAt(level) - d, d)
    IN  IF FracLess(raw, Frac(1, 10)) THEN Frac(1, 10) ELSE raw

\* C13: with a game at the level, the weight of each listed adversary c is
\* max(max_count / max(n_c, 1) - 1, 0.1), n_c its plays at the level and
\* max_count the highest count there; every weight is strictly positive.
C13_WeightFormula ==
    WeightedWithHistory =>
        \A i \in NameIndexes :
            /\ FracEq(call.weights[i], ClaimedWeight(ADVERSARY_NAMES[i], call.level))
            /\ call.weights[i].num > 0
            /\ call.weights[i].den > 0

\* England 3 times and Sweden twice at level 3: 0.1, 1/2, and 2 for the rest
C13_Witness ==
    /\ WeightedWithHistory
    /\ call.level = 3
    /\ PlaysAt("England", 3) = 3
    /\ PlaysAt("Sweden", 3) = 2
    /\ FracEq(call.weights[IndexOf("England")], Frac(1, 10))
    /\ FracEq(call.weights[IndexOf("Sweden")], Frac(1, 2))
    /\ FracEq(call.weights[IndexOf("Russia")], Frac(2, 1))

C15_FallbackUniform ==
    (Weighted /\ MaxPlaysAt(call.level) = 0) =>
        /\ \A i, j \in NameIndexes : FracEq(call.weights[i], call.weights[j])
        /\ \A i \in NameIndexes : call.weights[i].num > 0
        /\ call.outcomes = {Adversary(c, call.level) : c \in Range(ADVERSARY_NAMES)}
        /\ call.ret \in call.outcomes
        /\ call.ret.level = call.level

\* a history without a game at level 2, and the last name of the list drawn
C15_Witness ==
    /\ Weighted
    /\ games # <<>>
    /\ call.level = 2
    /\ MaxPlaysAt(2) = 0
    /\ call.ret = Adversary("Sweden", 2)

\* the history without its games at other levels
OnlyLevel(level) == SelectSeq(games, LAMBDA g : g.adversary.level = level)

\* C16: the weights depend on the games at the level asked for only: they
\* are the weights the call computes from the history without its games at
\* other levels, and so are the adversaries that can be returned.
C16_OtherLevelsIgnored ==
    Weighted =>
        LET alone == weighted_random_adversary(call.level, OnlyLevel(call.level))
        IN  /\ call.weights = alone.weights
            /\ call.outcomes = alone.outcomes
            /\ call.ret \in alone.outcomes

\* England was played most often overall, Sweden most often at level 3
C16_Witness ==
    /\ Weighted
    /\ call.level = 3
    /\ PlaysAt("England", 2) = 3
    /\ PlaysAt("Sweden", 3) = 2
    /\ PlaysAt("England", 3) = 0
    /\ FracEq(call.weights[IndexOf("Sweden")], Frac(1, 10))
    /\ FracEq(call.weights[IndexOf("England")], Frac(1, 1))

-----------------------------------------------------------------------------
(* Two sessions inside record_game at the same time *)

SessionIds == {1, 2}

\* a session that has pressed "Save Game" with a valid form and is about to
\* enter record_game(game)
SessionAt(game) ==
    [pc |-> "get_fs", game |-> game, fsv |-> "unset", game_json |-> None,
     filepath |-> None, ret |-> None]

\* two sessions of one server, each with its own game; the server has served
\* nothing yet, or has its filesystem already
InitSessions ==
    /\ store = << >>
    /\ cache = None
    /\ fs \in {"unset", "s3"}
    /\ call = NoCall
    /\ games = <<>>
    /\ PLAYER_NAMES = INITIAL_PLAYER_NAMES
    /\ PLAYERS = [i \in 1..Len(INITIAL_PLAYER_NAMES) |-> Player(INITIAL_PLAYER_NAMES[i])]
    /\ ui = DefaultWidgets
    /\ \E g1, g2 \in FormGames :
          /\ g1 # g2
          /\ sessions = [s \in SessionIds |-> SessionAt(IF s = 1 THEN g1 ELSE g2)]

\* fs = get_fs(); if not fs: return False
SessionGetFs(s) ==
    /\ sessions[s].pc = "get_fs"
    /\ \E fsv \in get_fs(fs) :
          /\ fs' = fsv
          /\ sessions' = [sessions EXCEPT ![s] =
                IF fsv = "none"
                THEN [@ EXCEPT !.pc = "done", !.fsv = fsv, !.ret = Some(FALSE)]
                ELSE [@ EXCEPT !.pc = "dump", !.fsv = fsv]]
    /\ UNCHANGED <<store, cache, call, games, PLAYER_NAMES, PLAYERS, ui>>

\* game_json, hashstr and filepath: local to the session
SessionDump(s) ==
    /\ sessions[s].pc = "dump"
    /\ LET game_json == model_dump_json(sessions[s].game)
       IN  sessions' = [sessions EXCEPT ![s] =
               [@ EXCEPT !.pc = "write", !.game_json = Some(game_json),
                         !.filepath = Some(Filepath(sha256(game_json)))]]
    /\ UNCHANGED <<store, fs, cache, call, games, PLAYER_NAMES, PLAYERS, ui>>

\* fs.write_text(filepath, game_json): one PUT of the whole blob, or an
\* exception and return False
SessionWrite(s) ==
    /\ sessions[s].pc = "write"
    /\ \E writeOk \in BOOLEAN :
          IF writeOk
          THEN /\ store' = write_text(store, sessions[s].filepath[1],
                                      sessions[s].game_json[1])
               /\ sessions' = [sessions EXCEPT ![s].pc = "clear"]
          ELSE /\ store' = store
               /\ sessions' = [sessions EXCEPT ![s] =
                      [@ EXCEPT !.pc = "done", !.ret = Some(FALSE)]]
    /\ UNCHANGED <<fs, cache, call, games, PLAYER_NAMES, PLAYERS, ui>>

\* st.cache_data.clear(); return True
SessionClear(s) ==
    /\ sessions[s].pc = "clear"
    /\ cache' = cache_data_clear(cache)
    /\ sessions' = [sessions EXCEPT ![s] = [@ EXCEPT !.pc = "done", !.ret = Some(TRUE)]]
    /\ UNCHANGED <<store, fs, call, games, PLAYER_NAMES, PLAYERS, ui>>

\* a rerun of any session reads the list while the saves are under way
SessionListGames ==
    /\ cache = None
    /\ \E fsv \in get_fs(fs), listing \in Listings(store) :
          /\ fs' = fsv
          /\ cache' = Some(list_games(store, fsv, "ok", listing))
    /\ UNCHANGED <<store, call, games, roster>>

NextSessions ==
    \/ \E s \in SessionIds : SessionGetFs(s)
    \/ \E s \in SessionIds : SessionDump(s)
    \/ \E s \in SessionIds : SessionWrite(s)
    \/ \E s \in SessionIds : SessionClear(s)
    \/ SessionListGames

SpecSessions == InitSessions /\ [][NextSessions]_vars


AllDone == \A s \in SessionIds : sessions # <<>> /\ sessions[s].pc = "done"

\* the blob record_game(game) names and writes
BlobName(game) == Filepath(sha256(model_dump_json(game)))

\* C17: two sessions that record games of different content do not disturb
\* each other, however their steps interleave: a session whose own write
\* succeeds returns True, and once both have returned the bucket holds,
\* under different names, the blob of each session that returned True; both
\* return True when the storage works.
C17_NoConflict ==
    AllDone =>
        /\ BlobName(sessions[1].game) # BlobName(sessions[2].game)
        /\ \A s \in SessionIds :
              /\ sessions[s].ret = Some(TRUE) <=>
                    (sessions[s].fsv = "s3" /\ sessions[s].filepath # None
                        /\ sessions[s].filepath[1] \in DOMAIN store)
              /\ sessions[s].ret = Some(TRUE) =>
                    /\ sessions[s].filepath[1] = BlobName(sessions[s].game)
                    /\ store[BlobName(sessions[s].game)] =
                           model_dump_json(sessions[s].game)
        /\ DOMAIN store =
              {BlobName(sessions[s].game) :
                  s \in {t \in SessionIds : sessions[t].ret = Some(TRUE)}}

\* both sessions have returned True and the bucket has both blobs
C17_Witness ==
    /\ AllDone
    /\ \A s \in SessionIds : sessions[s].ret = Some(TRUE)
    /\ Cardinality(DOMAIN store) = 2

-----------------------------------------------------------------------------
(* Export and re-import: game_history.export_games, import_games *)

MaxExport == 3

\* a datetime.date inside a dumped dict
PyDate(d) == [t |-> "date", v |-> d]

\* g.model_dump(): the dict of the fields; unlike model_dump_json it keeps
\* date_played as a date object
model_dump(g) == [model_dump_json(g) EXCEPT !.date_played = PyDate(g.date_played)]

\* repr(date) in place of str(date)
DateStr_Repr(d) == "datetime.date(2024, 1, " \o ToString(d) \o ")"

\* str(date): date.__str__ is isoformat()
DateStr(d) == isoformat(d)

\* json.dumps(obj, default=str) of one dumped game: str() is called on the
\* one value json cannot encode, the date
json_dumps(obj) ==
    [obj EXCEPT !.date_played = IF @.t = "date" THEN JStr(DateStr(@.v)) ELSE @]

\* export_games(games): the JSON document of the returned text
export_games(gs) == JArray([i \in 1..Len(gs) |-> json_dumps(model_dump(gs[i]))])

\* games as list_games returns them: saved from the form, read from a blob
\* without desync and notes, and imported with won and desync both set
ExportGames ==
    {Game(1, England3, <<PlayerSpirit(Bill, Thunderspeaker),
                         PlayerSpirit(Kyle, RiverSunshine)>>,
          Some(TRUE), Some(FALSE), Some("gg")),
     Game(2, England3, <<PlayerSpirit(Bill, River)>>, Some(FALSE), Some(FALSE), None),
     Game(2, Sweden2, <<PlayerSpirit(Kyle, River)>>, None, Some(TRUE), None),
     model_validate(LegacyValid)[1],
     model_validate(WonAndDesync)[1]}

\* the bucket after record_game of each game of the list
RECURSIVE StoreOf(_)
StoreOf(gs) ==
    IF gs = <<>> THEN << >>
    ELSE record_game(StoreOf(SubSeq(gs, 1, Len(gs) - 1)), "s3", gs[Len(gs)], TRUE).store

\* the settings tab with the games list_games returned: the bucket they were
\* read from, or an empty bucket that a backup is restored into
InitExport ==
    /\ call = NoCall
    /\ RosterIdle
    /\ games \in SeqsUpTo(ExportGames, MaxExport)
    /\ store \in {<< >>, StoreOf(games)}
    /\ fs \in {"unset", "s3"}
    /\ cache = None

\* "Export" followed by "Import Games" of the downloaded file
ExportThenImport ==
    /\ call = NoCall
    /\ \E created \in {"s3", "none"}, writeOk \in [1..Len(games) -> BOOLEAN] :
          LET games_json == export_games(games)
              r == import_games(games_json, ImportAcc(store, fs, cache, 0, 0),
                                created, writeOk)
          IN  /\ store' = r.acc.store
              /\ fs' = r.acc.fs
              /\ cache' = r.acc.cache
              /\ call' = [op |-> "export_import", games_json |-> games_json,
                          writeOk |-> writeOk, ret |-> r.ret, raised |-> r.raised,
                          before |-> store]
    /\ UNCHANGED <<games, roster>>

NextExport == ExportThenImport

SpecExport == InitExport /\ [][NextExport]_vars

\* C18: for a list of n valid games import_games(export_games(games))
\* validates record i to a Game equal to games[i]; when the writes succeed it
\* returns (n, 0) and writes each record under the blob name of the original,
\* so that re-importing into the bucket the games came from adds no blob.
C18_ExportImportRoundTrip ==
    call.op = "export_import" =>
        LET n == Len(games)
            items == call.games_json.items
        IN  /\ ~call.raised
            /\ Len(items) = n
            /\ \A i \in 1..n : model_validate(items[i]) = Some(games[i])
            /\ (fs = "s3" /\ \A i \in 1..n : call.writeOk[i]) =>
                  /\ call.ret = <<n, 0>>
                  /\ \A i \in 1..n :
                        /\ BlobName(games[i]) \in DOMAIN store
                        /\ store[BlobName(games[i])] = model_dump_json(games[i])
                  /\ DOMAIN store =
                        DOMAIN call.before \cup {BlobName(games[i]) : i \in 1..n}
                  /\ call.before = StoreOf(games) => store = call.before

\* three different games re-imported into the bucket they came from
C18_Witness ==
    /\ call.op = "export_import"
    /\ Cardinality(Range(games)) = 3
    /\ call.before = StoreOf(games)
    /\ call.ret = <<3, 0>>
    /\ store = call.before
    /\ Cardinality(DOMAIN store) = 3

-----------------------------------------------------------------------------
(* The roster: players.add_player *)

\* the names typed in: empty, whitespace only, on the roster, new, and new
\* ones that differ from another in case or in surrounding whitespace only
NameInputs == {"", " ", "  ", "Bill", "bill", "Zoe", " Zoe", "Al"}

\* str.strip() on the names above
strip(name) ==
    CASE name \in {" ", "  "} -> ""
      [] name = " Zoe" -> "Zoe"
      [] OTHER -> name

\* add_player without the test "name in PLAYER_NAMES"
add_player_NoDuplicateTest(names, players, name) ==
    IF name = "" \/ strip(name) = ""
    THEN [names |-> names, players |-> players, ret |-> None]
    ELSE [names |-> Append(names, name), players |-> Append(players, Player(name)),
          ret |-> Some(Player(name))]

\* add_player(name) on the two module lists: the lists afterwards and the
\* value returned
add_player(names, players, name) ==
    IF name = "" \/ strip(name) = ""
    THEN [names |-> names, players |-> players, ret |-> None]
    ELSE IF name \in Range(names)
    THEN [names |-> names, players |-> players, ret |-> None]
    ELSE [names |-> Append(names, name), players |-> Append(players, Player(name)),
          ret |-> Some(Player(name))]

InitPlayers ==
    /\ Idle
    /\ call = NoCall
    /\ games = <<>>

AddPlayer ==
    /\ \E name \in NameInputs :
          LET r == add_player(PLAYER_NAMES, PLAYERS, name)
          IN  /\ PLAYER_NAMES' = r.names
              /\ PLAYERS' = r.players
              /\ call' = [op |-> "add_player", name |-> name, ret |-> r.ret,
                          names_before |-> PLAYER_NAMES, players_before |-> PLAYERS]
    /\ UNCHANGED <<store, fs, cache, games, sessions, ui>>

NextPlayers == AddPlayer

SpecPlayers == InitPlayers /\ [][NextPlayers]_vars

\* the names that are empty or whitespace only
BlankNames == {"", " ", "  "}

\* C19: add_player(name) returns None and leaves both lists as they were
\* when name is blank or already in PLAYER_NAMES; otherwise it appends name
\* to PLAYER_NAMES and the new Player to PLAYERS and returns that Player.
\* PLAYER_NAMES never holds a name twice, and PLAYERS holds the Player of
\* each name of PLAYER_NAMES, in the same order.
C19_AddPlayer ==
    /\ \A i, j \in 1..Len(PLAYER_NAMES) : i # j => PLAYER_NAMES[i] # PLAYER_NAMES[j]
    /\ Len(PLAYERS) = Len(PLAYER_NAMES)
    /\ \A i \in 1..Len(PLAYER_NAMES) : PLAYERS[i] = Player(PLAYER_NAMES[i])
    /\ call.op = "add_player" =>
          IF call.name \in BlankNames \/ call.name \in Range(call.names_before)
          THEN /\ call.ret = None
               /\ PLAYER_NAMES = call.names_before
               /\ PLAYERS = call.players_before
          ELSE /\ call.ret = Some(Player(call.name))
               /\ PLAYER_NAMES = Append(call.names_before, call.name)
               /\ PLAYERS = Append(call.players_before, Player(call.name))

\* "Zoe" was added, and a second add_player("Zoe") has been turned down
C19_Witness ==
    /\ call.op = "add_player"
    /\ call.name = "Zoe"
    /\ call.ret = None
    /\ Len(PLAYER_NAMES) = Len(INITIAL_PLAYER_NAMES) + 1
    /\ PLAYER_NAMES[Len(PLAYER_NAMES)] = "Zoe"
    /\ PLAYERS[Len(PLAYERS)] = Player("Zoe")

-----------------------------------------------------------------------------
(* Per-seat counting of the spirit and player aggregations *)

SeatLabel(seat, by) ==
    IF by = "spirit" THEN SpiritStr(seat.spirit) ELSE seat.player.name

\* the seats (game index, seat index) with label k in a game whose won is w
SeatsWith(by, k, w) ==
    UNION {{<<i, j>> : j \in {n \in 1..Len(games[i].players_played) :
                                 /\ SeatLabel(games[i].players_played[n], by) = k
                                 /\ games[i].won = w}} : i \in 1..Len(games)}

SeatLabels(by) ==
    UNION {{SeatLabel(games[i].players_played[j], by) :
               j \in 1..Len(games[i].players_played)} : i \in 1..Len(games)}

PerSeatOps == {"get_player_stats", "breakdown_by_spirit", "breakdown_by_player"}

\* C20: the spirit and player aggregations count per seat: each label met
\* has one group, whose wins (losses) is the number of seats with that label
\* in won (lost) games, so a game with k seats of one label counts k times.
C20_PerSeat ==
    call.op \in PerSeatOps =>
        /\ {call.ret[i].key : i \in 1..Len(call.ret)} = SeatLabels(call.by)
        /\ \A i, j \in 1..Len(call.ret) : i # j => call.ret[i].key # call.ret[j].key
        /\ \A i \in 1..Len(call.ret) :
              /\ call.ret[i].wins =
                     Cardinality(SeatsWith(call.by, call.ret[i].key, Some(TRUE)))
              /\ call.ret[i].losses =
                     Cardinality(SeatsWith(call.by, call.ret[i].key, Some(FALSE)))

\* one won game with two seats of the same spirit: 2 wins for that spirit
C20_Witness ==
    /\ call.op = "breakdown_by_spirit"
    /\ Len(games) = 1
    /\ games[1].won = Some(TRUE)
    /\ Len(games[1].players_played) = 2
    /\ SpiritStr(games[1].players_played[1].spirit)
           = SpiritStr(games[1].players_played[2].spirit)
    /\ Len(call.ret) = 1
    /\ call.ret[1].wins = 2

-----------------------------------------------------------------------------
(* Random spirit: spirits.random_spirit, main.render_random_spirit_tab *)

\* sorted([...], key=str): by name, a base form before its aspects
SPIRITS ==
    <<
    Spirit("A Spread of Rampant Green", "Moderate", None),
    Spirit("Bringer of Dreams and Nightmares", "High", None),
    Spirit("Devouring Teeth Lurk Underfoot", "Low", None),
    Spirit("Eyes Watch from the Trees", "Low", None),
    Spirit("Fathomless Mud of the Swamp", "Low", None),
    Spirit("Fractured Days Split the Sky", "Very High", None),
    Spirit("Heart of the Wildfire", "High", None),
    Spirit("Keeper of the Forbidden Wilds", "Moderate", None),
    Spirit("Lightning's Swift Strike", "Low", None),
    Spirit("Lightning's Swift Strike", "Low", Some("Panda")),
    Spirit("Lightning's Swift Strike", "Low", Some("Wind")),
    Spirit("Lure of the Deep Wilderness", "Moderate", None),
    Spirit("Many Minds Move as One", "Moderate", None),
    Spirit("Ocean's Hungry Grasp", "High", None),
    Spirit("Rising Heat of Stone and Sand", "Low", None),
    Spirit("River Surges in Sunlight", "Low", None),
    Spirit("River Surges in Sunlight", "Low", Some("Sunshine")),
    Spirit("Serpent Slumbering Beneath the Island", "High", None),
    Spirit("Shadows Flicker Like Flame", "Low", None),
    Spirit("Shadows Flicker Like Flame", "Low", Some("Madness")),
    Spirit("Shadows Flicker Like Flame", "Low", Some("Reach")),
    Spirit("Sharp Fangs Behind the Leaves", "Moderate", None),
    Spirit("Shroud of Silent Mist", "High", None),
    Spirit("Stone's Unyielding Defiance", "Moderate", None),
    Spirit("Sun-Bright Whirlwind", "Low", None),
    Spirit("Thunderspeaker", "Moderate", None),
    Spirit("Vengeance as a Burning Plague", "High", None),
    Spirit("Vital Strength of the Earth", "Low", None),
    Spirit("Vital Strength of the Earth", "Low", Some("Resilience")),
    Spirit("Volcano Looming High", "Moderate", None)
    >>

\* {s.name for s in SPIRITS}
spirit_names == {SPIRITS[i].name : i \in 1..Len(SPIRITS)}

\* [s for s in SPIRITS if selected_name == s.name]
aspects(selected_name) == SelectSeq(SPIRITS, LAMBDA s : s.name = selected_name)

\* the body of random_spirit: every pair of draws the two random.choice
\* calls can make
RandomSpiritDraws ==
    UNION {{[raised |-> FALSE, selected_name |-> Some(n), aspects |-> aspects(n),
             ret |-> Some(sp)] : sp \in Range(aspects(n))} : n \in spirit_names}

\* a call random_spirit(*args): the function is defined without parameters,
\* so a call with an argument is a TypeError and the body does not run
random_spirit(args) ==
    IF args # <<>>
    THEN {[raised |-> TRUE, selected_name |-> None, aspects |-> <<>>, ret |-> None]}
    ELSE RandomSpiritDraws

\* the options of the radio "Filter by complexity:"
complexities == <<"Any", "Low", "Moderate", "High", "Very High">>

InitSpirit ==
    /\ Idle
    /\ call = NoCall
    /\ games = <<>>

\* the radio is set to another option
SelectComplexity ==
    /\ \E c \in Range(complexities) :
          /\ c # ui.selected_complexity
          /\ ui' = [ui EXCEPT !.selected_complexity = c]
    /\ UNCHANGED <<store, fs, cache, call, games, sessions, PLAYER_NAMES, PLAYERS>>

\* the button "Randomize Spirit": selected = spirits.random_spirit(complexity_filter)
RandomizeSpirit ==
    /\ LET complexity_filter == IF ui.selected_complexity = "Any" THEN None
                                ELSE Some(ui.selected_complexity)
       IN  \E r \in random_spirit(<<complexity_filter>>) :
              call' = [op |-> "random_spirit", caller |-> "render_random_spirit_tab",
                       args |-> <<complexity_filter>>, raised |-> r.raised,
                       selected_name |-> r.selected_name, aspects |-> r.aspects,
                       ret |-> r.ret]
    /\ UNCHANGED <<store, fs, cache, games, roster>>

\* random_spirit() called as it is defined, without an argument
RandomSpirit ==
    /\ \E r \in random_spirit(<<>>) :
          call' = [op |-> "random_spirit", caller |-> "direct",
                   args |-> <<>>, raised |-> r.raised,
                   selected_name |-> r.selected_name, aspects |-> r.aspects,
                   ret |-> r.ret]
    /\ UNCHANGED <<store, fs, cache, games, roster>>

NextSpirit ==
    \/ SelectComplexity
    \/ RandomizeSpirit
    \/ RandomSpirit

SpecSpirit == InitSpirit /\ [][NextSpirit]_vars

\* the draw is in two stages: a base name out of the distinct names, then an
\* entry of SPIRITS with that name
TwoStage ==
    /\ ~call.raised
    /\ call.selected_name # None
    /\ call.selected_name[1] \in spirit_names
    /\ call.aspects = SelectSeq(SPIRITS, LAMBDA s : s.name = call.selected_name[1])
    /\ call.ret # None
    /\ call.ret[1] \in Range(call.aspects)
    /\ call.ret[1] \in Range(SPIRITS)
    /\ call.ret[1].name = call.selected_name[1]

\* C21: a call of random_spirit, as the random spirit tab makes it, draws a
\* base name out of the distinct names of SPIRITS and then an entry of SPIRITS
\* with that name; what it returns is a member of SPIRITS with the drawn name.
C21_TwoStageDraw ==
    call.op = "random_spirit" => TwoStage

\* the body of random_spirit meets the claim when it is called without an
\* argument
RandomSpiritBody ==
    (call.op = "random_spirit" /\ call.caller = "direct") => TwoStage

\* an aspect is drawn by a call without an argument
RandomSpiritAspectDrawn ==
    /\ call.op = "random_spirit"
    /\ call.caller = "direct"
    /\ call.ret = Some(RiverSunshine)

-----------------------------------------------------------------------------
(* The read cache and the saves *)

\* C22: a record_game that returns True leaves list_games without a cached
\* value, so that the list_games call that follows runs its body again and,
\* when it reads the bucket without a fault, returns a list with the saved
\* game; a record_game that returns False leaves the cached value as it was.
C22_SaveInvalidatesCache ==
    /\ [](call.op = "record_game" =>
             IF call.ret THEN cache = None ELSE cache = call.cached)
    /\ [][(Saved /\ call'.op = "list_games") =>
             /\ ~call'.hit
             /\ call'.fault = "none" =>
                   /\ call.game \in Range(call'.ret)
                   /\ cache' = Some(call'.ret)]_vars

\* a save has returned True while list_games had a cached list without the
\* game
C22_Witness ==
    /\ Saved
    /\ call.cached # None
    /\ call.game \notin Range(call.cached[1])
    /\ Cardinality(DOMAIN call.before) = 1
    /\ cache = None

\* a save has returned False and the cached list is still there
C22_WitnessFailed ==
    /\ call.op = "record_game"
    /\ ~call.ret
    /\ call.cached # None
    /\ Len(call.cached[1]) = 1
    /\ cache = call.cached

-----------------------------------------------------------------------------
(* Game history tab: main.render_game_history_tab *)

MaxShown == 3

\* str.lower() on the texts below
lower(x) ==
    CASE x = "England" -> "england"
      [] x = "Sweden" -> "sweden"
      [] x = "Bill" -> "bill"
      [] x = "Kyle" -> "kyle"
      [] x = "Thunderspeaker" -> "thunderspeaker"
      [] x = "River Surges in Sunlight[Sunshine]" -> "river surges in sunlight[sunshine]"
      [] x = "Eng" -> "eng"
      [] OTHER -> x

\* the pairs (a, b) of the lowered texts with a in b, a # b
Substrings ==
    {<<"eng", "england">>, <<"shine", "river surges in sunlight[sunshine]">>}

\* a in b
Contains(a, b) == a = b \/ <<a, b>> \in Substrings

\* the condition of the search comprehension
MatchesSearch(g, search_lower) ==
    \/ Contains(search_lower, lower(g.adversary.name))
    \/ \E i \in 1..Len(g.players_played) :
          Contains(search_lower, lower(g.players_played[i].player.name))
    \/ \E i \in 1..Len(g.players_played) :
          Contains(search_lower, lower(SpiritStr(g.players_played[i].spirit)))

\* filtered_games
SearchFiltered(gs, search_term) ==
    IF search_term # ""
    THEN SelectSeq(gs, LAMBDA g : MatchesSearch(g, lower(search_term)))
    ELSE gs

\* the place of a name in Python's order of str, for the listed names
StrRank(name) == CHOOSE i \in 1..Len(ADVERSARY_NAMES) : ADVERSARY_NAMES[i] = name

\* sort_options[sort_by](g): the sort key as an integer, None where the
\* lambda raises (unary minus is not defined for datetime.date)
SortKey(g, sort_by) ==
    CASE sort_by = "Newest first" -> Some(g.date_played)
      [] sort_by = "Oldest first" -> None
      [] sort_by = "Adversary (A-Z)" -> Some(StrRank(g.adversary.name))
      [] sort_by = "Adversary level (high-low)" -> Some(0 - g.adversary.level)

\* sorted(s, key=..., reverse=False) is the stable descending sort by the
\* negated keys
SortedAsc(s, keys) == SortedDesc(s, [i \in 1..Len(keys) |-> 0 - keys[i]])

\* the part of render_game_history_tab up to sorted_games: the filtered
\* list, the displayed list and whether the sort raised
render_game_history_tab(gs, sort_by, search_term) ==
    LET filtered_games == SearchFiltered(gs, search_term)
        keys == [i \in 1..Len(filtered_games) |-> SortKey(filtered_games[i], sort_by)]
    IN  IF \E i \in 1..Len(keys) : keys[i] = None
        THEN [raised |-> TRUE, filtered |-> filtered_games, ret |-> <<>>]
        ELSE LET ks == [i \in 1..Len(keys) |-> keys[i][1]]
             IN  [raised |-> FALSE, filtered |-> filtered_games,
                  ret |-> IF sort_by = "Newest first"
                          THEN SortedDesc(filtered_games, ks)
                          ELSE SortedAsc(filtered_games, ks)]

\* the options of the selectbox "Sort by"
SortOptions ==
    <<"Newest first", "Oldest first", "Adversary (A-Z)", "Adversary level (high-low)">>

\* texts typed into "Search games": an adversary, a player, an aspect, nothing
\* that occurs
SearchTerms == {"", "Eng", "bill", "shine", "zzz"}

HistoryTabGames ==
    {Game(d, adv, seats, Some(TRUE), Some(FALSE), None) :
        d \in {1, 2},
        adv \in {England3, Sweden2, Adversary("Sweden", 4)},
        seats \in {<<PlayerSpirit(Bill, Thunderspeaker)>>,
                   <<PlayerSpirit(Kyle, RiverSunshine)>>}}

\* the tab gets the list list_games returned: newest first
InitHistory ==
    /\ Idle
    /\ call = NoCall
    /\ games \in {l \in SeqsUpTo(HistoryTabGames, MaxShown) :
                     \A i \in 1..(Len(l) - 1) : l[i].date_played >= l[i + 1].date_played}

\* another option of "Sort by" is chosen; the script runs again
SelectSort ==
    /\ games # <<>>
    /\ \E sort_by \in Range(SortOptions) :
          /\ sort_by # ui.sort_by
          /\ ui' = [ui EXCEPT !.sort_by = sort_by]
          /\ LET r == render_game_history_tab(games, sort_by, ui.search_term)
             IN  call' = [op |-> "render_game_history_tab", sort_by |-> sort_by,
                          search_term |-> ui.search_term, raised |-> r.raised,
                          filtered |-> r.filtered, ret |-> r.ret]
    /\ UNCHANGED <<store, fs, cache, games, sessions, PLAYER_NAMES, PLAYERS>>

\* a text is entered into "Search games"; the script runs again
EnterSearch ==
    /\ games # <<>>
    /\ \E search_term \in SearchTerms :
          /\ search_term # ui.search_term
          /\ ui' = [ui EXCEPT !.search_term = search_term]
          /\ LET r == render_game_history_tab(games, ui.sort_by, search_term)
             IN  call' = [op |-> "render_game_history_tab", sort_by |-> ui.sort_by,
                          search_term |-> search_term, raised |-> r.raised,
                          filtered |-> r.filtered, ret |-> r.ret]
    /\ UNCHANGED <<store, fs, cache, games, sessions, PLAYER_NAMES, PLAYERS>>

\* the tab is opened
OpenHistory ==
    /\ games # <<>>
    /\ call = NoCall
    /\ LET r == render_game_history_tab(games, ui.sort_by, ui.search_term)
       IN  call' = [op |-> "render_game_history_tab", sort_by |-> ui.sort_by,
                    search_term |-> ui.search_term, raised |-> r.raised,
                    filtered |-> r.filtered, ret |-> r.ret]
    /\ UNCHANGED <<store, fs, cache, games, roster>>

NextHistory ==
    \/ SelectSort
    \/ EnterSearch
    \/ OpenHistory

SpecHistory == InitHistory /\ [][NextHistory]_vars


Rendered == call.op = "render_game_history_tab"

\* s is a rearrangement of t
IsPermutation(s, t) ==
    /\ Len(s) = Len(t)
    /\ \A x \in Range(s) \cup Range(t) : Occurrences(s, x) = Occurrences(t, x)

\* the order the name of the option promises
InNamedOrder(s, sort_by) ==
    \A i, j \in 1..Len(s) :
        i < j =>
            CASE sort_by = "Newest first" -> s[i].date_played >= s[j].date_played
              [] sort_by = "Oldest first" -> s[i].date_played <= s[j].date_played
              [] sort_by = "Adversary (A-Z)" ->
                     StrRank(s[i].adversary.name) <= StrRank(s[j].adversary.name)
              [] sort_by = "Adversary level (high-low)" ->
                     s[i].adversary.level >= s[j].adversary.level

Displayed ==
    /\ ~call.raised
    /\ IsPermutation(call.ret, SearchFiltered(games, call.search_term))
    /\ InNamedOrder(call.ret, call.sort_by)

\* C23: whichever of the four sort options is chosen, the history tab shows
\* the games that pass the search, each once, in the order the option names
\* (date descending, date ascending, adversary name ascending, adversary
\* level descending), and the sort does not fail.
C23_SortOptions ==
    Rendered => Displayed

\* the three options other than "Oldest first" do what the claim says, and so
\* does "Oldest first" when the search leaves no game
OtherSortOptions ==
    (Rendered /\ (call.sort_by # "Oldest first" \/ call.filtered = <<>>)) => Displayed

\* three games shown by adversary level, which is neither the order of the
\* list nor the order of the names
LevelOrderShown ==
    /\ Rendered
    /\ call.sort_by = "Adversary level (high-low)"
    /\ Len(call.ret) = 3
    /\ call.ret # games
    /\ call.ret[1].adversary.level = 4
    /\ call.ret[3].adversary.level = 2

====
